---- MODULE Spec2Model ----
(***************************************************************************)
(* Model of the dailyhex scoreboard parser (hex_scoreboard_parser.py):     *)
(* the colour codec (parse_ansi_colors, hex_to_ansi_bg), the scoreboard    *)
(* extractor (parse_scoreboard), the guess evaluator (evaluate_guess,      *)
(* get_impossible_digits) and the formatter (format_output), and of the    *)
(* functions of the same names of tmux_scoreboard_parser.py.               *)
(*                                                                         *)
(* A Python string is a sequence of one-character atoms.  The atoms that   *)
(* are not written as the character itself are named in the section        *)
(* Characters.  A Python list of strings is a sequence of such sequences.  *)
(* In a list of characters None is the atom NoneMark, which is no          *)
(* character.  Where a string may stand None is the sequence None, whose   *)
(* one element is that atom, so that it is no string: it differs from the  *)
(* empty string and from the string of the four letters N, o, n, e.        *)
(***************************************************************************)
EXTENDS Integers, Sequences, FiniteSets, TLC

VARIABLES
    op,                 \* the operation that produced the current state
    solution,           \* evaluator: the solution string, as passed in
    guess,              \* evaluator: the guess string, as passed in
    impossible_digits,  \* evaluator: the set of digits marked impossible
    result,             \* evaluator: the list evaluate_guess returned
    history,            \* evaluator: the previous guesses of a player
    hex_color,          \* codec: the colour string given to hex_to_ansi_bg
    encoded,            \* codec: the escape sequence hex_to_ansi_bg returned
    decoded,            \* codec: the list parse_ansi_colors returned
    content,            \* extractor: the captured text
    data,               \* extractor: the dict parse_scoreboard returned
    output,             \* formatter: the list output of format_output
    position,           \* formatter: the iterators of the two loops of format_output
    returned            \* formatter: the text format_output returned

vars == <<op, solution, guess, impossible_digits, result, history,
          hex_color, encoded, decoded, content, data, output, position, returned>>

-----------------------------------------------------------------------------
(* Characters *)

ESC == "ESC"               \* \x1b
NL == "NL"                 \* \n
TAB == "TAB"               \* \t
MIDDOT == "MIDDOT"         \* U+00B7, the middle dot
CR == "CR"                 \* \r
VT == "VT"                 \* \x0b
FF == "FF"                 \* \x0c
FS == "FS"                 \* \x1c
GS == "GS"                 \* \x1d
RS == "RS"                 \* \x1e
US == "US"                 \* \x1f
NEL == "NEL"               \* \x85
NBSP == "NBSP"             \* \xa0, the no-break space
ARABIC_THREE == "ARABIC_THREE"   \* U+0663, a decimal digit that is not ASCII
NoneMark == "None"         \* None as an element of a list of characters
None == <<NoneMark>>       \* None where a string may stand

HexChars == <<"0", "1", "2", "3", "4", "5", "6", "7",
              "8", "9", "A", "B", "C", "D", "E", "F">>

DecChars == <<"0", "1", "2", "3", "4", "5", "6", "7", "8", "9">>

\* the lower-case letters of the model, and the upper-case letter of each:
\* the ASCII letters and two letters that are not ASCII
LowerLetters == <<"a", "b", "c", "d", "e", "f", "g", "h", "i", "j", "k", "l", "m",
                  "n", "o", "p", "q", "r", "s", "t", "u", "v", "w", "x", "y", "z",
                  "é", "ñ">>
UpperLetters == <<"A", "B", "C", "D", "E", "F", "G", "H", "I", "J", "K", "L", "M",
                  "N", "O", "P", "Q", "R", "S", "T", "U", "V", "W", "X", "Y", "Z",
                  "É", "Ñ">>

LowerSet == {LowerLetters[i] : i \in 1..Len(LowerLetters)}

UpperMap ==
    [c \in LowerSet |-> UpperLetters[CHOOSE i \in 1..Len(LowerLetters) : LowerLetters[i] = c]]

\* str.upper() on one character that has one upper-case character
UpperChar(c) == IF c \in LowerSet THEN UpperMap[c] ELSE c

\* str.upper() from index i on: "ß" has the two characters "SS"
RECURSIVE UpperFrom(_, _)
UpperFrom(s, i) ==
    IF i > Len(s) THEN <<>>
    ELSE (IF s[i] = "ß" THEN <<"S", "S">> ELSE <<UpperChar(s[i])>>) \o UpperFrom(s, i + 1)

\* str.upper()
upper(s) ==
    IF \E i \in 1..Len(s) : s[i] = "ß" THEN UpperFrom(s, 1)
    ELSE [i \in 1..Len(s) |-> UpperChar(s[i])]

\* number of leading "#" characters of s, counted from index i
RECURSIVE LeadingHashes(_, _)
LeadingHashes(s, i) ==
    IF i <= Len(s) /\ s[i] = "#" THEN 1 + LeadingHashes(s, i + 1) ELSE 0

\* str.lstrip("#")
lstrip_hash(s) == SubSeq(s, LeadingHashes(s, 1) + 1, Len(s))

-----------------------------------------------------------------------------
(* Guess evaluator *)

\* the length evaluate_guess and get_impossible_digits require and loop over
WordLen == 6

\* the strings evaluate_guess puts in its result, one for each digit, written
\* as TLA+ strings with ESC for \x1b
Red(c) == "ESC[31m" \o c \o "ESC[0m"
Green(c) == "ESC[32m" \o c \o "ESC[0m"
Yellow(c) == "ESC[33m" \o c \o "ESC[0m"
Plain(c) == c

\* list.index(c): the first index of c in s (s holds c)
FirstIndex(s, c) == CHOOSE i \in 1..Len(s) : s[i] = c /\ \A j \in 1..(i - 1) : s[j] # c

\* c in s, for a list s
InList(s, c) == \E i \in 1..Len(s) : s[i] = c

\* RedPass without `guess_chars[i] = None`: the digit stays to be processed
RedPassKeep(st, impossible) ==
    [g |-> st.g,
     s |-> st.s,
     r |-> [i \in 1..WordLen |->
                IF st.g[i] \in impossible THEN Red(st.g[i]) ELSE NoneMark]]

\* first pass: mark impossible digits (red); st = [g, s, r]
RedPass(st, impossible) ==
    [g |-> [i \in 1..WordLen |->
                IF st.g[i] \in impossible THEN NoneMark ELSE st.g[i]],
     s |-> st.s,
     r |-> [i \in 1..WordLen |->
                IF st.g[i] \in impossible THEN Red(st.g[i]) ELSE NoneMark]]

\* GreenPass without `solution_chars[i] = None`: the solution digit of a
\* correct position can still match another position of the guess
GreenPassKeepSolution(st) ==
    LET hit(i) == st.g[i] # NoneMark /\ st.g[i] = st.s[i]
    IN  [g |-> [i \in 1..WordLen |-> IF hit(i) THEN NoneMark ELSE st.g[i]],
         s |-> st.s,
         r |-> [i \in 1..WordLen |-> IF hit(i) THEN Green(st.g[i]) ELSE st.r[i]]]

\* second pass: mark correct positions (green)
GreenPass(st) ==
    LET hit(i) == st.g[i] # NoneMark /\ st.g[i] = st.s[i]
    IN  [g |-> [i \in 1..WordLen |-> IF hit(i) THEN NoneMark ELSE st.g[i]],
         s |-> [i \in 1..WordLen |-> IF hit(i) THEN NoneMark ELSE st.s[i]],
         r |-> [i \in 1..WordLen |-> IF hit(i) THEN Green(st.g[i]) ELSE st.r[i]]]

\* YellowPass without `solution_chars[idx] = None`: a solution digit is not
\* used up by the guess digit it matches
RECURSIVE YellowPassNoConsume(_, _)
YellowPassNoConsume(st, i) ==
    IF i > WordLen THEN st
    ELSE IF st.g[i] = NoneMark THEN YellowPassNoConsume(st, i + 1)
    ELSE IF InList(st.s, st.g[i])
         THEN YellowPassNoConsume([g |-> st.g,
                                   s |-> st.s,
                                   r |-> [st.r EXCEPT ![i] = Yellow(st.g[i])]], i + 1)
         ELSE YellowPassNoConsume([g |-> st.g,
                                   s |-> st.s,
                                   r |-> [st.r EXCEPT ![i] = Plain(st.g[i])]], i + 1)

\* third pass: mark wrong positions (yellow), position i onwards
RECURSIVE YellowPass(_, _)
YellowPass(st, i) ==
    IF i > WordLen THEN st
    ELSE IF st.g[i] = NoneMark THEN YellowPass(st, i + 1)
    ELSE IF InList(st.s, st.g[i])
         THEN YellowPass([g |-> st.g,
                          s |-> [st.s EXCEPT ![FirstIndex(st.s, st.g[i])] = NoneMark],
                          r |-> [st.r EXCEPT ![i] = Yellow(st.g[i])]], i + 1)
         ELSE YellowPass([g |-> st.g,
                          s |-> st.s,
                          r |-> [st.r EXCEPT ![i] = Plain(st.g[i])]], i + 1)

\* evaluate_guess from the length test on: g and s are the guess and the
\* solution without "#", in upper case
EvaluateClean(g, s, impossible) ==
    IF Len(g) # WordLen \/ Len(s) # WordLen
    THEN [i \in 1..Len(g) |-> Plain(g[i])]
    ELSE YellowPass(GreenPass(RedPass([g |-> g, s |-> s, r |-> <<>>],
                                      impossible)), 1).r

evaluate_guess(guess_in, solution_in, impossible) ==
    EvaluateClean(upper(lstrip_hash(guess_in)), upper(lstrip_hash(solution_in)),
                  impossible)

\* get_impossible_digits: the correct-position loop of one guess; st = [g, s]
ImpossibleGreenPass(st) ==
    LET hit(i) == st.g[i] = st.s[i]
    IN  [g |-> [i \in 1..WordLen |-> IF hit(i) THEN NoneMark ELSE st.g[i]],
         s |-> [i \in 1..WordLen |-> IF hit(i) THEN NoneMark ELSE st.s[i]]]

\* the wrong-position loop without `solution_chars[idx] = None`: a digit of
\* the solution gives feedback to every occurrence of it in the guess
RECURSIVE ImpossibleYellowPassNoConsume(_, _)
ImpossibleYellowPassNoConsume(st, i) ==
    IF i > WordLen THEN st
    ELSE IF st.g[i] = NoneMark THEN ImpossibleYellowPassNoConsume(st, i + 1)
    ELSE IF InList(st.s, st.g[i])
         THEN ImpossibleYellowPassNoConsume(
                  [g |-> [st.g EXCEPT ![i] = NoneMark], s |-> st.s], i + 1)
         ELSE ImpossibleYellowPassNoConsume(st, i + 1)

\* get_impossible_digits: the wrong-position loop of one guess
RECURSIVE ImpossibleYellowPass(_, _)
ImpossibleYellowPass(st, i) ==
    IF i > WordLen THEN st
    ELSE IF st.g[i] = NoneMark THEN ImpossibleYellowPass(st, i + 1)
    ELSE IF InList(st.s, st.g[i])
         THEN ImpossibleYellowPass(
                  [g |-> [st.g EXCEPT ![i] = NoneMark],
                   s |-> [st.s EXCEPT ![FirstIndex(st.s, st.g[i])] = NoneMark]],
                  i + 1)
         ELSE ImpossibleYellowPass(st, i + 1)

\* get_impossible_digits: the digits of guess_chars that are not None
Unprocessed(g) == {g[i] : i \in {j \in 1..Len(g) : g[j] # NoneMark}}

\* ImpossibleStep without the length test: the digits of a guess of another
\* length count as digits that got no feedback
ImpossibleStepNoLengthTest(impossible, guess_in, solution_in) ==
    LET g == upper(lstrip_hash(guess_in))
        s == upper(lstrip_hash(solution_in))
    IN  IF Len(g) # WordLen \/ Len(s) # WordLen
        THEN impossible \cup {g[i] : i \in 1..Len(g)}
        ELSE impossible \cup Unprocessed(
                 ImpossibleYellowPass(ImpossibleGreenPass([g |-> g, s |-> s]), 1).g)

\* get_impossible_digits: the body of the loop over previous_guesses from the
\* length test on, which adds the digits of one guess to the set built so far
ImpossibleStepClean(impossible, g, s) ==
    IF Len(g) # WordLen \/ Len(s) # WordLen
    THEN impossible
    ELSE impossible \cup Unprocessed(
             ImpossibleYellowPass(ImpossibleGreenPass([g |-> g, s |-> s]), 1).g)

\* get_impossible_digits: the body of the loop over previous_guesses
ImpossibleStep(impossible, guess_in, solution_in) ==
    ImpossibleStepClean(impossible, upper(lstrip_hash(guess_in)),
                        upper(lstrip_hash(solution_in)))

RECURSIVE ImpossibleLoop(_, _, _, _)
ImpossibleLoop(impossible, previous_guesses, solution_in, k) ==
    IF k > Len(previous_guesses) THEN impossible
    ELSE ImpossibleLoop(ImpossibleStep(impossible, previous_guesses[k], solution_in),
                        previous_guesses, solution_in, k + 1)

get_impossible_digits(previous_guesses, solution_in) ==
    ImpossibleLoop({}, previous_guesses, solution_in, 1)

-----------------------------------------------------------------------------
(* tmux_scoreboard_parser.py: evaluate_guess without impossible digits *)

\* first pass: mark correct positions (green); st = [g, s, r]
TmuxGreenPass(st) ==
    LET hit(i) == st.g[i] = st.s[i]
    IN  [g |-> [i \in 1..WordLen |-> IF hit(i) THEN NoneMark ELSE st.g[i]],
         s |-> [i \in 1..WordLen |-> IF hit(i) THEN NoneMark ELSE st.s[i]],
         r |-> [i \in 1..WordLen |-> IF hit(i) THEN Green(st.g[i]) ELSE NoneMark]]

\* second pass: mark wrong positions (yellow), position i onwards
RECURSIVE TmuxYellowPass(_, _)
TmuxYellowPass(st, i) ==
    IF i > WordLen THEN st
    ELSE IF st.g[i] = NoneMark THEN TmuxYellowPass(st, i + 1)
    ELSE IF InList(st.s, st.g[i])
         THEN TmuxYellowPass([g |-> st.g,
                              s |-> [st.s EXCEPT ![FirstIndex(st.s, st.g[i])] = NoneMark],
                              r |-> [st.r EXCEPT ![i] = Yellow(st.g[i])]], i + 1)
         ELSE TmuxYellowPass([g |-> st.g,
                              s |-> st.s,
                              r |-> [st.r EXCEPT ![i] = Plain(st.g[i])]], i + 1)

tmux_evaluate_guess(guess_in, solution_in) ==
    LET g == upper(lstrip_hash(guess_in))
        s == upper(lstrip_hash(solution_in))
    IN  IF Len(g) # WordLen \/ Len(s) # WordLen
        THEN [i \in 1..Len(g) |-> Plain(g[i])]
        ELSE TmuxYellowPass(TmuxGreenPass([g |-> g, s |-> s, r |-> <<>>]), 1).r

-----------------------------------------------------------------------------
(* Colour codec *)

\* [0-9]
DecSet == {DecChars[i] : i \in 1..10}

\* \d of a str pattern: every decimal digit of Unicode; of those that are
\* not ASCII the model has ARABIC_THREE
IsDigit(c) == c \in DecSet \cup {ARABIC_THREE}

\* str.isspace(), which is \s of a str pattern: the white space up to U+00FF
Whitespace == {" ", TAB, NL, CR, VT, FF, FS, GS, RS, US, NEL, NBSP}

\* text[i-1 : j], which stops at the end of the text
Slice(text, i, j) == SubSeq(text, i, IF j > Len(text) THEN Len(text) ELSE j)

\* the character at index i of t, NoneMark past its ends
At(t, i) == IF i >= 1 /\ i <= Len(t) THEN t[i] ELSE NoneMark

DigitVal(c) == IF c = ARABIC_THREE THEN 3 ELSE (CHOOSE i \in 1..10 : DecChars[i] = c) - 1
HexVal(c) ==
    IF c = ARABIC_THREE THEN 3 ELSE (CHOOSE i \in 1..16 : HexChars[i] = UpperChar(c)) - 1

\* int(s) of a string of decimal digits
RECURSIVE IntOfDec(_)
IntOfDec(s) ==
    IF s = <<>> THEN 0
    ELSE 10 * IntOfDec(SubSeq(s, 1, Len(s) - 1)) + DigitVal(s[Len(s)])

\* the value of a string of hex digits
RECURSIVE HexDigitsVal(_)
HexDigitsVal(s) ==
    IF s = <<>> THEN 0
    ELSE 16 * HexDigitsVal(SubSeq(s, 1, Len(s) - 1)) + HexVal(s[Len(s)])

\* the white space int() skips at the two ends of its argument: that of
\* str.isspace() without the four separators \x1c to \x1f
IntSpace == Whitespace \ {FS, GS, RS, US}

\* s without the white space int() skips at its two ends
RECURSIVE StripSpace(_)
StripSpace(s) ==
    IF s # <<>> /\ s[1] \in IntSpace THEN StripSpace(Tail(s))
    ELSE IF s # <<>> /\ s[Len(s)] \in IntSpace THEN StripSpace(SubSeq(s, 1, Len(s) - 1))
    ELSE s

\* int(s, 16) of a string of at most 2 characters, as hex_to_ansi_bg slices
\* them: white space at the ends, a sign, and then one hex digit at least;
\* of any other string int raises ValueError and HexDigitsVal has no value
IntOfHex(s) ==
    LET t == StripSpace(s)
        signed == t # <<>> /\ t[1] \in {"+", "-"}
        digits == IF signed THEN Tail(t) ELSE t
    IN  IF digits = <<>> THEN HexDigitsVal(<<NoneMark>>)
        ELSE IF signed /\ t[1] = "-" THEN 0 - HexDigitsVal(digits)
        ELSE HexDigitsVal(digits)

\* f"{n}" of n that is not negative
RECURSIVE DecDigits(_)
DecDigits(n) ==
    IF n < 10 THEN <<DecChars[n + 1]>>
    ELSE DecDigits(n \div 10) \o <<DecChars[(n % 10) + 1]>>

\* f"{n}"
DecStr(n) == IF n < 0 THEN <<"-">> \o DecDigits(0 - n) ELSE DecDigits(n)

\* f"{n:X}"
RECURSIVE HexStr(_)
HexStr(n) ==
    IF n < 16 THEN <<HexChars[n + 1]>>
    ELSE HexStr(n \div 16) \o <<HexChars[(n % 16) + 1]>>

\* f"{n:02X}"
FormatX02(n) == IF n < 16 THEN <<"0">> \o HexStr(n) ELSE HexStr(n)

\* f"#{int(r):02X}{int(g):02X}{int(b):02X}" for the groups rgb = <<r, g, b>>
HexColor(rgb) ==
    <<"#">> \o FormatX02(IntOfDec(rgb[1])) \o FormatX02(IntOfDec(rgb[2]))
            \o FormatX02(IntOfDec(rgb[3]))

\* the index after the longest run of digits that starts at index i (\d*)
RECURSIVE DigitsEnd(_, _)
DigitsEnd(t, i) == IF IsDigit(At(t, i)) THEN DigitsEnd(t, i + 1) ELSE i

IsSep(c) == c \in {";", ":"}

NoMatch == [ok |-> FALSE, end |-> 0, rgb |-> <<>>]

\* [;:](\d+)m at index p, after the groups r and g: each \d+ is the longest
\* run, as the character after it must not be a digit
TailB(t, p, r, g) ==
    IF IsSep(At(t, p)) /\ DigitsEnd(t, p + 1) > p + 1
                       /\ At(t, DigitsEnd(t, p + 1)) = "m"
    THEN [ok |-> TRUE, end |-> DigitsEnd(t, p + 1) + 1,
          rgb |-> <<r, g, SubSeq(t, p + 1, DigitsEnd(t, p + 1) - 1)>>]
    ELSE NoMatch

\* [;:](\d+)[;:](\d+)m at index p, after the group r
TailG(t, p, r) ==
    IF IsSep(At(t, p)) /\ DigitsEnd(t, p + 1) > p + 1
    THEN TailB(t, DigitsEnd(t, p + 1), r, SubSeq(t, p + 1, DigitsEnd(t, p + 1) - 1))
    ELSE NoMatch

\* [;:]2[;:](\d+)[;:](\d+)[;:](\d+)m at index p
ColorTail(t, p) ==
    IF IsSep(At(t, p)) /\ At(t, p + 1) = "2" /\ IsSep(At(t, p + 2))
                       /\ DigitsEnd(t, p + 3) > p + 3
    THEN TailG(t, DigitsEnd(t, p + 3), SubSeq(t, p + 3, DigitsEnd(t, p + 3) - 1))
    ELSE NoMatch

\* \x1b\[48[;:]2[;:](\d+)[;:](\d+)[;:](\d+)m at index i
BgMatchAt(t, i) ==
    IF At(t, i) = ESC /\ At(t, i + 1) = "[" /\ At(t, i + 2) = "4" /\ At(t, i + 3) = "8"
    THEN ColorTail(t, i + 4)
    ELSE NoMatch

\* (?:\d+;)*38[;:]2[;:](\d+)[;:](\d+)[;:](\d+)m at index p: the greedy star
\* takes a group \d+; when the rest matches after it, and stops otherwise
RECURSIVE FgParams(_, _)
FgParams(t, p) ==
    IF DigitsEnd(t, p) > p /\ At(t, DigitsEnd(t, p)) = ";"
                           /\ FgParams(t, DigitsEnd(t, p) + 1).ok
    THEN FgParams(t, DigitsEnd(t, p) + 1)
    ELSE IF At(t, p) = "3" /\ At(t, p + 1) = "8"
         THEN ColorTail(t, p + 2)
         ELSE NoMatch

\* \x1b\[(?:\d+;)*38[;:]2[;:](\d+)[;:](\d+)[;:](\d+)m at index i
FgMatchAt(t, i) ==
    IF At(t, i) = ESC /\ At(t, i + 1) = "[" THEN FgParams(t, i + 2) ELSE NoMatch

MatchAt(t, i, background_only) ==
    IF background_only THEN BgMatchAt(t, i) ELSE FgMatchAt(t, i)

\* re.findall(pattern, text) from index i on: the matches left to right, none
\* overlapping another
RECURSIVE FindAll(_, _, _)
FindAll(t, i, background_only) ==
    IF i > Len(t) THEN <<>>
    ELSE IF MatchAt(t, i, background_only).ok
         THEN <<MatchAt(t, i, background_only).rgb>>
                  \o FindAll(t, MatchAt(t, i, background_only).end, background_only)
         ELSE FindAll(t, i + 1, background_only)

\* f"#{int(r):X}{int(g):X}{int(b):X}": no padding to 2 digits
HexColorNoPad(rgb) ==
    <<"#">> \o HexStr(IntOfDec(rgb[1])) \o HexStr(IntOfDec(rgb[2]))
            \o HexStr(IntOfDec(rgb[3]))

\* the loop over the matches with the format that does not pad
ColorsOfNoPad(matches) == [k \in 1..Len(matches) |-> HexColorNoPad(matches[k])]

parse_ansi_colors_no_pad(text, background_only) ==
    ColorsOfNoPad(FindAll(text, 1, background_only))

\* the loop over the matches
ColorsOf(matches) == [k \in 1..Len(matches) |-> HexColor(matches[k])]

parse_ansi_colors(text, background_only) ==
    ColorsOf(FindAll(text, 1, background_only))

hex_to_ansi_bg(color) ==
    <<ESC, "[", "4", "8", ";", "2", ";">>
        \o DecStr(IntOfHex(Slice(lstrip_hash(color), 1, 2))) \o <<";">>
        \o DecStr(IntOfHex(Slice(lstrip_hash(color), 3, 4))) \o <<";">>
        \o DecStr(IntOfHex(Slice(lstrip_hash(color), 5, 6))) \o <<"m">>

-----------------------------------------------------------------------------
(* Scoreboard extractor *)

\* \s of the row pattern, and the characters str.strip() takes
IsSpace(c) == c \in Whitespace

\* \w of a str pattern: the letters and decimal digits of Unicode and "_";
\* of those that are not ASCII the model has the letters below and
\* ARABIC_THREE
WordChars ==
    DecSet \cup {"_"} \cup {"é", "ñ", "É", "Ñ", "ß", "Â", ARABIC_THREE}
        \cup {"a", "b", "c", "d", "e", "f", "g", "h", "i", "j", "k", "l", "m", "n", "o", "p", "q", "r", "s", "t", "u", "v", "w", "x", "y", "z"}
        \cup {"A", "B", "C", "D", "E", "F", "G", "H", "I", "J", "K", "L", "M", "N", "O", "P", "Q", "R", "S", "T", "U", "V", "W", "X", "Y", "Z"}
IsWord(c) == c \in WordChars

TokenDay == <<"d", "a", "y">>
TokenDaySpace == <<"d", "a", "y", " ">>
TokenName == <<"n", "a", "m", "e">>
TokenMoves == <<"m", "o", "v", "e", "s">>
TokenDailyhex == <<"d", "a", "i", "l", "y", "h", "e", "x">>
TokenTitle == <<"d", "a", "i", "l", "y", "h", "e", "x", "!">>

\* token in text
Contains(text, token) ==
    \E i \in 1..(Len(text) - Len(token) + 1) :
        SubSeq(text, i, i + Len(token) - 1) = token

\* content.split("\n")
RECURSIVE split(_)
split(text) ==
    IF \E i \in 1..Len(text) : text[i] = NL
    THEN LET i == CHOOSE i \in 1..Len(text) :
                      text[i] = NL /\ \A j \in 1..(i - 1) : text[j] # NL
         IN <<SubSeq(text, 1, i - 1)>> \o split(SubSeq(text, i + 1, Len(text)))
    ELSE <<text>>

\* re.search(r"day (\d+)", line).group(1), None without a match
DayMatch(line) ==
    IF \E i \in 1..Len(line) :
           Slice(line, i, i + 3) = TokenDaySpace /\ IsDigit(At(line, i + 4))
    THEN LET i == CHOOSE i \in 1..Len(line) :
                      /\ Slice(line, i, i + 3) = TokenDaySpace /\ IsDigit(At(line, i + 4))
                      /\ \A j \in 1..(i - 1) :
                             ~(Slice(line, j, j + 3) = TokenDaySpace /\ IsDigit(At(line, j + 4)))
         IN SubSeq(line, i + 4, DigitsEnd(line, i + 4) - 1)
    ELSE None

\* the test of a day line
IsDayLine(line) ==
    Contains(line, TokenDay) /\ (Contains(line, <<MIDDOT>>) \/ Contains(line, <<">">>))

\* one line of the loop with a break after the first day found
DayOfFirst(day_number, line) ==
    IF day_number # None THEN day_number
    ELSE IF IsDayLine(line) /\ DayMatch(line) # None THEN DayMatch(line)
         ELSE day_number

\* day_number after one line of the first loop
DayOf(day_number, line) ==
    IF IsDayLine(line) /\ DayMatch(line) # None THEN DayMatch(line)
    ELSE day_number

\* one line of the loop without the test of the title token
SolutionOfAnyLine(solution_in, line) ==
    IF parse_ansi_colors(line, FALSE) # <<>>
    THEN parse_ansi_colors(line, FALSE)[1]
    ELSE solution_in

\* solution after one line of the first loop
SolutionOf(solution_in, line) ==
    IF Contains(line, TokenTitle) /\ parse_ansi_colors(line, FALSE) # <<>>
    THEN parse_ansi_colors(line, FALSE)[1]
    ELSE solution_in

\* the first loop over the lines, from line k on
RECURSIVE HeaderLoop(_, _, _, _)
HeaderLoop(lines, k, day_number, solution_in) ==
    IF k > Len(lines) THEN [day |-> day_number, solution |-> solution_in]
    ELSE HeaderLoop(lines, k + 1, DayOf(day_number, lines[k]),
                    SolutionOf(solution_in, lines[k]))

\* line.strip() is not empty
HasText(line) == \E i \in 1..Len(line) : ~IsSpace(line[i])

\* the index after the longest run of [0-9;] that starts at index i
RECURSIVE ParamsEnd(_, _)
ParamsEnd(t, i) ==
    IF At(t, i) \in DecSet \cup {";"} THEN ParamsEnd(t, i + 1) ELSE i

\* the index after a match of \x1b\[[0-9;]*m at index i, 0 without a match
SgrEnd(t, i) ==
    IF At(t, i) = ESC /\ At(t, i + 1) = "[" /\ At(t, ParamsEnd(t, i + 2)) = "m"
    THEN ParamsEnd(t, i + 2) + 1
    ELSE 0

\* re.sub(r"\x1b\[[0-9;]*m", "", line) from index i on
RECURSIVE StripFrom(_, _)
StripFrom(t, i) ==
    IF i > Len(t) THEN <<>>
    ELSE IF SgrEnd(t, i) > 0 THEN StripFrom(t, SgrEnd(t, i))
         ELSE <<t[i]>> \o StripFrom(t, i + 1)

clean_line(line) == StripFrom(line, 1)

\* the skip test made on the text without its escape sequences and with the
\* whole title token
IsSkippedClean(line) ==
    \/ ~HasText(clean_line(line))
    \/ Contains(clean_line(line), TokenName)
    \/ Contains(clean_line(line), TokenMoves)
    \/ Contains(clean_line(line), TokenTitle)
    \/ Contains(clean_line(line), TokenDay)

\* the skip test of the second loop
IsSkipped(line) ==
    \/ ~HasText(line)
    \/ Contains(line, TokenName)
    \/ Contains(line, TokenMoves)
    \/ Contains(line, TokenDailyhex)
    \/ Contains(line, TokenDay)

RECURSIVE SpaceEnd(_, _)
SpaceEnd(t, i) == IF IsSpace(At(t, i)) THEN SpaceEnd(t, i + 1) ELSE i

RECURSIVE WordEnd(_, _)
WordEnd(t, i) == IF IsWord(At(t, i)) THEN WordEnd(t, i + 1) ELSE i

\* the index of the last character at or before j that is no whitespace
RECURSIVE TrimEnd(_, _)
TrimEnd(t, j) == IF IsSpace(At(t, j)) THEN TrimEnd(t, j - 1) ELSE j

\* the first index of the run of digits that ends at index j
RECURSIVE DigitsStart(_, _)
DigitsStart(t, j) == IF IsDigit(At(t, j)) THEN DigitsStart(t, j - 1) ELSE j + 1

NoRow == [ok |-> FALSE, name |-> <<>>, moves |-> <<>>]

\* re.search(r"^\s*(\w+)\s+.*?(\d+)\s*$", t): \s* and \w+ take their longest
\* runs (the character after each must not continue the run), \s+ takes at
\* least one whitespace, and the lazy .*? stops at the first index from which
\* digits and whitespace reach the end, the start of the trailing digits
RowMatchAt(t, a, b, p, e, d) ==
    IF b > a /\ p > b /\ d <= e /\ p <= e
    THEN [ok |-> TRUE, name |-> SubSeq(t, a, b - 1),
          moves |-> SubSeq(t, IF p > d THEN p ELSE d, e)]
    ELSE NoRow

RowMatch(t) ==
    RowMatchAt(t, SpaceEnd(t, 1), WordEnd(t, SpaceEnd(t, 1)),
               SpaceEnd(t, WordEnd(t, SpaceEnd(t, 1))),
               TrimEnd(t, Len(t)), DigitsStart(t, TrimEnd(t, Len(t))))

\* players[name] = record
Put(players, name, record) ==
    [n \in (DOMAIN players) \cup {name} |-> IF n = name THEN record ELSE players[n]]

\* the record a row gives
RowRecord(line) ==
    [moves |-> IntOfDec(RowMatch(clean_line(line)).moves),
     guesses |-> parse_ansi_colors(line, TRUE)]

\* one line of the loop that keeps the first record of a name
PlayersOfFirst(players, line) ==
    IF IsSkipped(line) \/ ~RowMatch(clean_line(line)).ok
          \/ RowMatch(clean_line(line)).name \in DOMAIN players
    THEN players
    ELSE Put(players, RowMatch(clean_line(line)).name, RowRecord(line))

\* players after one line of the second loop
PlayersOf(players, line) ==
    IF IsSkipped(line) \/ ~RowMatch(clean_line(line)).ok THEN players
    ELSE Put(players, RowMatch(clean_line(line)).name, RowRecord(line))

\* the second loop over the lines, from line k on
RECURSIVE PlayersLoop(_, _, _)
PlayersLoop(lines, k, players) ==
    IF k > Len(lines) THEN players
    ELSE PlayersLoop(lines, k + 1, PlayersOf(players, lines[k]))

parse_scoreboard(text) ==
    [title |-> TokenTitle,
     day |-> HeaderLoop(split(text), 1, None, None).day,
     solution |-> HeaderLoop(split(text), 1, None, None).solution,
     players |-> PlayersLoop(split(text), 1, <<>>)]

-----------------------------------------------------------------------------
(* Scoreboard extractor of tmux_scoreboard_parser.py *)

\* ;(\d+)m at index p, after the groups r and g
TmuxTailB(t, p, r, g) ==
    IF At(t, p) = ";" /\ DigitsEnd(t, p + 1) > p + 1
                      /\ At(t, DigitsEnd(t, p + 1)) = "m"
    THEN [ok |-> TRUE, end |-> DigitsEnd(t, p + 1) + 1,
          rgb |-> <<r, g, SubSeq(t, p + 1, DigitsEnd(t, p + 1) - 1)>>]
    ELSE NoMatch

\* ;(\d+);(\d+)m at index p, after the group r
TmuxTailG(t, p, r) ==
    IF At(t, p) = ";" /\ DigitsEnd(t, p + 1) > p + 1
    THEN TmuxTailB(t, DigitsEnd(t, p + 1), r, SubSeq(t, p + 1, DigitsEnd(t, p + 1) - 1))
    ELSE NoMatch

\* \x1b\[48;2;(\d+);(\d+);(\d+)m at index i
TmuxMatchAt(t, i) ==
    IF Slice(t, i, i + 6) = <<ESC, "[", "4", "8", ";", "2", ";">>
           /\ DigitsEnd(t, i + 7) > i + 7
    THEN TmuxTailG(t, DigitsEnd(t, i + 7), SubSeq(t, i + 7, DigitsEnd(t, i + 7) - 1))
    ELSE NoMatch

\* re.findall(pattern, text) from index i on
RECURSIVE TmuxFindAll(_, _)
TmuxFindAll(t, i) ==
    IF i > Len(t) THEN <<>>
    ELSE IF TmuxMatchAt(t, i).ok
         THEN <<TmuxMatchAt(t, i).rgb>> \o TmuxFindAll(t, TmuxMatchAt(t, i).end)
         ELSE TmuxFindAll(t, i + 1)

tmux_parse_ansi_colors(text) == ColorsOf(TmuxFindAll(text, 1))

\* the test of a day line: the middle dot is sought as the two characters
\* its UTF-8 bytes make when they are read as Latin-1
TmuxIsDayLine(line) == Contains(line, TokenDay) /\ Contains(line, <<"Â", MIDDOT>>)

\* day_number after one line of the first loop
TmuxDayOf(day_number, line) ==
    IF TmuxIsDayLine(line) /\ DayMatch(line) # None THEN DayMatch(line)
    ELSE day_number

\* the first loop over the lines, from line k on
RECURSIVE TmuxDayLoop(_, _, _)
TmuxDayLoop(lines, k, day_number) ==
    IF k > Len(lines) THEN day_number
    ELSE TmuxDayLoop(lines, k + 1, TmuxDayOf(day_number, lines[k]))

\* the record a row gives
TmuxRowRecord(line) ==
    [moves |-> IntOfDec(RowMatch(clean_line(line)).moves),
     guesses |-> tmux_parse_ansi_colors(line)]

\* players after one line of the second loop
TmuxPlayersOf(players, line) ==
    IF IsSkipped(line) \/ ~RowMatch(clean_line(line)).ok THEN players
    ELSE Put(players, RowMatch(clean_line(line)).name, TmuxRowRecord(line))

\* the second loop over the lines, from line k on
RECURSIVE TmuxPlayersLoop(_, _, _)
TmuxPlayersLoop(lines, k, players) ==
    IF k > Len(lines) THEN players
    ELSE TmuxPlayersLoop(lines, k + 1, TmuxPlayersOf(players, lines[k]))

tmux_parse_scoreboard(text) ==
    [title |-> TokenTitle,
     day |-> TmuxDayLoop(split(text), 1, None),
     players |-> TmuxPlayersLoop(split(text), 1, <<>>)]

-----------------------------------------------------------------------------
(* Inputs of the evaluator *)

\* number of distinct hex digits the drawn guesses and solutions use
NumDigits == 2

\* longest undersized colour string drawn
MaxShort == 2

DigitOrder == <<"A", "0", "F", "7", "C", "3", "E", "9",
                "B", "1", "D", "2", "8", "4", "6", "5">>

Digits == {DigitOrder[i] : i \in 1..NumDigits}

\* the 6-digit strings, "#" in front as parse_ansi_colors writes them
Words == {<<"#">> \o w : w \in [1..WordLen -> Digits]}

\* the digits the drawn solutions use
SolutionDigits == {DigitOrder[1], DigitOrder[2]}

\* the 6-digit solutions: one of each two that differ by swapping the two
\* digits, the one that starts with the first
SolutionWords ==
    {<<"#">> \o w : w \in {v \in [1..WordLen -> SolutionDigits] : v[1] = DigitOrder[1]}}

\* the strings with fewer than 6 digits, with and without "#"
ShortWords ==
    UNION {{pre \o w : w \in [1..n -> Digits]} :
               n \in 0..MaxShort, pre \in {<<>>, <<"#">>}}

\* strings with 7 digits
LongWords == {<<"#">> \o [i \in 1..(WordLen + 1) |-> d] : d \in Digits}

\* strings in lower case, of 6 digits and of 1, and a string of 5 letters
\* that str.upper() makes 6
LowerWords ==
    {<<"#">> \o [i \in 1..n |-> c] : c \in {"a", "f"}, n \in {1, WordLen}}
        \cup {<<"#", "g", "g", "g", "g", "ß">>}

Guesses == Words \cup LowerWords \cup ShortWords \cup LongWords

Solutions == SolutionWords \cup {<<"#", DigitOrder[1]>>}
                           \cup {<<"#">> \o [i \in 1..(WordLen + 1) |-> DigitOrder[1]]}

-----------------------------------------------------------------------------
(* The evaluator as a state machine: the loop of get_impossible_digits over
   the previous guesses, one guess a step, and evaluate_guess called on a
   guess with any set of impossible digits. *)

\* the formatter before format_output is called
NoPosition == [player |-> 0, guess |-> 0]
FormatterIdle == output = <<>> /\ position = NoPosition /\ returned = <<>>

NoColor == <<>>
NoContent == <<>>
NoData == [day |-> None, solution |-> None, players |-> <<>>]

OtherIdle ==
    /\ hex_color = NoColor /\ encoded = <<>> /\ decoded = <<>>
    /\ content = NoContent /\ data = NoData

Init ==
    /\ op = "init"
    /\ solution \in Solutions
    /\ guess = <<>>
    /\ impossible_digits = {}
    /\ result = <<>>
    /\ history = <<>>
    /\ FormatterIdle
    /\ OtherIdle

\* one iteration of the loop of get_impossible_digits: op tells whether the
\* iteration took the `continue` of the length test or ran to its end, and
\* the loop goes on after either
GetImpossibleDigitsStep ==
    /\ op \in {"init", "continue", "impossible"}
    /\ \E g \in Guesses :
        /\ impossible_digits' = ImpossibleStep(impossible_digits, g, solution)
        /\ op' = IF Len(upper(lstrip_hash(g))) # WordLen
                     \/ Len(upper(lstrip_hash(solution))) # WordLen
                 THEN "continue" ELSE "impossible"
    /\ guess' = <<>>
    /\ result' = <<>>
    /\ UNCHANGED <<solution, history, hex_color, encoded, decoded, content, data, output,
                   position, returned>>

\* evaluate_guess called with any set of impossible digits
EvaluateGuess ==
    /\ op = "init"
    /\ \E g \in Guesses, imp \in SUBSET Digits :
        /\ guess' = g
        /\ impossible_digits' = imp
        /\ result' = evaluate_guess(g, solution, imp)
    /\ op' = "evaluate"
    /\ UNCHANGED <<solution, history, hex_color, encoded, decoded, content, data, output,
                   position, returned>>

Next == GetImpossibleDigitsStep \/ EvaluateGuess

Spec == Init /\ [][Next]_vars

-----------------------------------------------------------------------------
(* The two evaluators as a state machine: evaluate_guess of
   hex_scoreboard_parser.py called on a guess with any set of impossible
   digits, and evaluate_guess of tmux_scoreboard_parser.py, which takes no
   such set, called on a guess. *)

\* evaluate_guess of tmux_scoreboard_parser.py called on a guess
TmuxEvaluateGuess ==
    /\ op = "init"
    /\ \E g \in Guesses :
        /\ guess' = g
        /\ result' = tmux_evaluate_guess(g, solution)
    /\ impossible_digits' = {}
    /\ op' = "tmux_evaluate"
    /\ UNCHANGED <<solution, history, hex_color, encoded, decoded, content, data, output,
                   position, returned>>

NextEvaluate == EvaluateGuess \/ TmuxEvaluateGuess

SpecEvaluate == Init /\ [][NextEvaluate]_vars

-----------------------------------------------------------------------------
(* The formatters as a state machine: format_output of
   hex_scoreboard_parser.py and format_output of tmux_scoreboard_parser.py,
   one output.append a step and the return after the last. The dict data is
   the argument; its players are data["players"].items(), the pairs of a
   name and a dict in the order of the dict. *)

\* most guesses before the one format_output is at
MaxHistory == 2

\* the digits of the guesses of a player: two the solutions use and one
\* they do not
HistoryDigits == {DigitOrder[1], DigitOrder[2], DigitOrder[3]}

\* the guesses of a player: two pairs of equal digits, the second of a digit
\* the solutions use, and a pair of the second digit after them
HistoryGuesses ==
    {<<"#", a, a, b, b, DigitOrder[2], DigitOrder[2]>> :
         a \in HistoryDigits, b \in SolutionDigits}

\* the solutions format_output is given: the first digit, two pairs of equal
\* digits that do not sit where the pairs of the guesses do, and one digit
HistorySolutions ==
    {<<"#", DigitOrder[1], x, x, y, y, z>> :
         x \in SolutionDigits, y \in SolutionDigits, z \in SolutionDigits}

\* the lists of at most n guesses
GuessLists(n) == UNION {[1..k -> HistoryGuesses] : k \in 0..n}

\* names of players
Alice == <<"a", "l", "i", "c", "e">>
Bob == <<"b", "o", "b">>

\* a pair of data["players"].items()
Item(name, moves, guesses) == <<name, [moves |-> moves, guesses |-> guesses]>>

DayFive == <<"5">>

\* the string "None", which is not None
NoneString == <<"N", "o", "n", "e">>

\* the players of most dicts given to format_output of
\* hex_scoreboard_parser.py: one player with every list of guesses
OnePlayer == {<<Item(Alice, 7, l)>> : l \in GuessLists(MaxHistory + 1)}

\* no player, and two players of which the first has no guess
FewPlayers == {<<>>} \cup {<<Item(Bob, 4, <<>>), Item(Alice, 12, l)>> : l \in GuessLists(1)}

\* the dicts with the day d, the solution s and the players of a set
HistoryData(d, s, players) ==
    {[title |-> TokenTitle, day |-> d, solution |-> s, players |-> ps] : ps \in players}

\* the dicts without the key "solution", as tmux_scoreboard_parser.py makes
\* them
UnsolvedData ==
    {[title |-> TokenTitle, day |-> DayFive, players |-> <<Item(Alice, 7, l)>>] :
         l \in GuessLists(1)}

\* the guesses of the players given to tmux_scoreboard_parser.py
TmuxGuesses ==
    {<<"#", "0", "0", "A", "A", "0", "0">>, <<"#", "A", "A", "0", "0", "0", "0">>,
     <<"#", "0", "0", "0", "0", "0", "0">>}

\* the players of the dicts given to format_output of
\* tmux_scoreboard_parser.py: no player, one, and a second before the first
\* with fewer moves, as many and more, and with a guess and without
TmuxPlayers ==
    {<<>>}
        \cup {<<Item(Alice, 2, l)>> : l \in UNION {[1..k -> TmuxGuesses] : k \in 0..2}}
        \cup {<<Item(Bob, m, b), Item(Alice, 2, l)>> :
                  m \in {1, 2, 12}, b \in [1..1 -> TmuxGuesses] \cup {<<>>},
                  l \in UNION {[1..k -> TmuxGuesses] : k \in 0..2}}

\* the dicts with the day d and the players of TmuxPlayers
TmuxFormatData(d) ==
    {[title |-> TokenTitle, day |-> d, players |-> ps] : ps \in TmuxPlayers}

\* data.get("solution")
find_solution(d) == IF "solution" \in DOMAIN d THEN d.solution ELSE None

\* the test `if v:` of None or a string: a string that is not empty is
\* true, the string "None" as every other
Truthy(v) == v # None /\ v # <<>>

\* "#" + "".join(colored_chars): a cell of the list is one element of the
\* string
format_colored_hex(g, s, impossible) == \* the list is built once
    CHOOSE colored_hex \in
        {<<"#">> \o [i \in 1..Len(colored_chars) |-> colored_chars[i]] :
             colored_chars \in {evaluate_guess(g, s, impossible)}} : TRUE

\* f"{hex_to_ansi_bg(color)}  \x1b[0m"
ColorBlock(color) == hex_to_ansi_bg(color) \o <<" ", " ", ESC, "[", "0", "m">>

\* f"  {i}. {color_block} {colored_hex}"
OutputLine(i, color_block, colored_hex) ==
    <<" ", " ">> \o DecStr(i) \o <<".", " ">> \o color_block \o <<" ">> \o colored_hex

\* f"=== {data['title']} ==="
TitleLine(d) == <<"=", "=", "=", " ">> \o d.title \o <<" ", "=", "=", "=">>

\* f"Day: {data['day']}"
DayLine(d) == <<"D", "a", "y", ":", " ">> \o d.day

\* f"Solution: {solution}"
SolutionLine(s) == <<"S", "o", "l", "u", "t", "i", "o", "n", ":", " ">> \o s

\* f"{player_name} ({player_data['moves']} moves):"
PlayerLine(player_name, player_data) ==
    player_name \o <<" ", "(">> \o DecStr(player_data.moves)
                \o <<" ", "m", "o", "v", "e", "s", ")", ":">>

\* the list output after the lines before the loop over the players
HeaderLines(d, s) ==
    <<TitleLine(d)>> \o (IF Truthy(d.day) THEN <<DayLine(d)>> ELSE <<>>)
                     \o (IF Truthy(s) THEN <<SolutionLine(s)>> ELSE <<>>)
                     \o <<<<>>>>

\* "\n".join(lines)
RECURSIVE Join(_)
Join(lines) ==
    IF lines = <<>> THEN <<>>
    ELSE IF Len(lines) = 1 THEN lines[1]
    ELSE lines[1] \o <<NL>> \o Join(Tail(lines))

\* tmux_scoreboard_parser.py: "#" + "".join(colored_chars)
tmux_format_colored_hex(g, s) == \* the list is built once
    CHOOSE colored_hex \in
        {<<"#">> \o [i \in 1..Len(colored_chars) |-> colored_chars[i]] :
             colored_chars \in {tmux_evaluate_guess(g, s)}} : TRUE

\* tmux_scoreboard_parser.py: the last guess of the first player that has
\* guesses, None when no player has
RECURSIVE tmux_find_solution(_)
tmux_find_solution(items) ==
    IF items = <<>> THEN None
    ELSE IF items[1][2].guesses # <<>>
         THEN items[1][2].guesses[Len(items[1][2].guesses)]
         ELSE tmux_find_solution(Tail(items))

\* item in the list sorted by moves, after the items with fewer moves and
\* before the others
InsertByMoves(item, sorted) ==
    LET k == Cardinality({j \in 1..Len(sorted) : sorted[j][2].moves < item[2].moves})
    IN  SubSeq(sorted, 1, k) \o <<item>> \o SubSeq(sorted, k + 1, Len(sorted))

\* sorted(data["players"].items(), key=lambda x: x[1]["moves"]): items with as
\* many moves keep their order
RECURSIVE SortedByMoves(_)
SortedByMoves(items) ==
    IF items = <<>> THEN <<>>
    ELSE InsertByMoves(items[1], SortedByMoves(Tail(items)))

\* format_output of one of the two programs is called on a dict: op tells
\* which
InitHistory ==
    /\ \/ /\ op = "init"
          /\ \/ \E s \in HistorySolutions : data \in HistoryData(DayFive, s, OnePlayer)
             \/ data \in HistoryData(DayFive, None, OnePlayer)
             \/ data \in HistoryData(None, <<"#", "A", "A", "A", "0", "0", "0">>,
                                     FewPlayers)
             \/ data \in HistoryData(None, None, FewPlayers)
             \/ data \in HistoryData(NoneString, NoneString, OnePlayer)
             \/ data \in UnsolvedData
       \/ /\ op = "tmux_init"
          /\ \/ data \in TmuxFormatData(None)
             \/ data \in TmuxFormatData(DayFive)
             \/ data \in TmuxFormatData(NoneString)
    /\ solution = <<>>
    /\ history = <<>>
    /\ impossible_digits = {}
    /\ guess = <<>>
    /\ result = <<>>
    /\ hex_color = NoColor /\ encoded = <<>> /\ decoded = <<>>
    /\ content = NoContent
    /\ FormatterIdle

\* the lines before the loop over the players
FormatHeader ==
    /\ op = "init"
    /\ solution' = find_solution(data)
    /\ output' = HeaderLines(data, solution')
    /\ op' = "header"
    /\ UNCHANGED <<guess, impossible_digits, result, history, hex_color, encoded, decoded,
                   content, data, position, returned>>

\* the loop over the players goes to the next player and appends its line
FormatPlayer ==
    /\ op \in {"header", "blank"}
    /\ position.player < Len(data.players)
    /\ position' = [player |-> position.player + 1, guess |-> 0]
    /\ output' = Append(output, PlayerLine(data.players[position'.player][1],
                                           data.players[position'.player][2]))
    /\ op' = "player"
    /\ UNCHANGED <<solution, guess, impossible_digits, result, history, hex_color, encoded,
                   decoded, content, data, returned>>

\* the guesses of the player the loop of hex_scoreboard_parser.py is at
PlayerGuesses == data.players[position.player][2].guesses

\* one iteration of the loop over the guesses of a player: guess is color,
\* encoded is hex_to_ansi_bg(color), and with a solution history is
\* previous_guesses and impossible_digits and result are what
\* get_impossible_digits and evaluate_guess returned
FormatOutput ==
    /\ op \in {"player", "format"}
    /\ position.guess < Len(PlayerGuesses)
    /\ position' = [position EXCEPT !.guess = @ + 1]
    /\ \E color \in {PlayerGuesses[position'.guess]} :
        /\ guess' = color
        /\ hex_color' = color
        /\ encoded' = hex_to_ansi_bg(color)
        /\ IF Truthy(solution)
           THEN /\ history' = SubSeq(PlayerGuesses, 1, position'.guess - 1)
                /\ impossible_digits' = get_impossible_digits(history', solution)
                /\ result' = evaluate_guess(color, solution, impossible_digits')
                /\ output' = Append(output,
                                    OutputLine(position'.guess, ColorBlock(color),
                                               format_colored_hex(color, solution,
                                                                  impossible_digits')))
           ELSE /\ UNCHANGED <<history, impossible_digits, result>>
                /\ output' = Append(output,
                                    OutputLine(position'.guess, ColorBlock(color), color))
    /\ op' = "format"
    /\ UNCHANGED <<solution, decoded, content, data, returned>>

\* the empty line after the guesses of a player
FormatBlank ==
    /\ op \in {"player", "format"}
    /\ position.guess = Len(PlayerGuesses)
    /\ output' = Append(output, <<>>)
    /\ op' = "blank"
    /\ UNCHANGED <<solution, guess, impossible_digits, result, history, hex_color, encoded,
                   decoded, content, data, position, returned>>

\* return "\n".join(output)
FormatReturn ==
    /\ op \in {"header", "blank"}
    /\ position.player = Len(data.players)
    /\ returned' = Join(output)
    /\ op' = "return"
    /\ UNCHANGED <<solution, guess, impossible_digits, result, history, hex_color, encoded,
                   decoded, content, data, output, position>>

\* tmux_scoreboard_parser.py: the lines before the loop over the players
TmuxFormatHeader ==
    /\ op = "tmux_init"
    /\ solution' = tmux_find_solution(data.players)
    /\ output' = HeaderLines(data, solution')
    /\ op' = "tmux_header"
    /\ UNCHANGED <<guess, impossible_digits, result, history, hex_color, encoded, decoded,
                   content, data, position, returned>>

\* the list sorted_players of tmux_scoreboard_parser.py
SortedPlayers == SortedByMoves(data.players)

\* tmux_scoreboard_parser.py: the loop over the sorted players goes to the
\* next player and appends its line
TmuxFormatPlayer ==
    /\ op \in {"tmux_header", "tmux_blank"}
    /\ position.player < Len(SortedPlayers)
    /\ position' = [player |-> position.player + 1, guess |-> 0]
    /\ output' = Append(output, PlayerLine(SortedPlayers[position'.player][1],
                                           SortedPlayers[position'.player][2]))
    /\ op' = "tmux_player"
    /\ UNCHANGED <<solution, guess, impossible_digits, result, history, hex_color, encoded,
                   decoded, content, data, returned>>

\* the guesses of the player the loop of tmux_scoreboard_parser.py is at
TmuxPlayerGuesses == SortedPlayers[position.player][2].guesses

\* tmux_scoreboard_parser.py: one iteration of the loop over the guesses of a
\* player, which with a solution calls the evaluate_guess of that file
TmuxFormatOutput ==
    /\ op \in {"tmux_player", "tmux_format"}
    /\ position.guess < Len(TmuxPlayerGuesses)
    /\ position' = [position EXCEPT !.guess = @ + 1]
    /\ \E color \in {TmuxPlayerGuesses[position'.guess]} :
        /\ guess' = color
        /\ hex_color' = color
        /\ encoded' = hex_to_ansi_bg(color)
        /\ IF Truthy(solution)
           THEN /\ result' = tmux_evaluate_guess(color, solution)
                /\ output' = Append(output,
                                    OutputLine(position'.guess, ColorBlock(color),
                                               tmux_format_colored_hex(color, solution)))
           ELSE /\ UNCHANGED result
                /\ output' = Append(output,
                                    OutputLine(position'.guess, ColorBlock(color), color))
    /\ op' = "tmux_format"
    /\ UNCHANGED <<solution, impossible_digits, history, decoded, content, data, returned>>

\* tmux_scoreboard_parser.py: the empty line after the guesses of a player
TmuxFormatBlank ==
    /\ op \in {"tmux_player", "tmux_format"}
    /\ position.guess = Len(TmuxPlayerGuesses)
    /\ output' = Append(output, <<>>)
    /\ op' = "tmux_blank"
    /\ UNCHANGED <<solution, guess, impossible_digits, result, history, hex_color, encoded,
                   decoded, content, data, position, returned>>

\* tmux_scoreboard_parser.py: return "\n".join(output)
TmuxFormatReturn ==
    /\ op \in {"tmux_header", "tmux_blank"}
    /\ position.player = Len(SortedPlayers)
    /\ returned' = Join(output)
    /\ op' = "tmux_return"
    /\ UNCHANGED <<solution, guess, impossible_digits, result, history, hex_color, encoded,
                   decoded, content, data, output, position>>

NextHistory ==
    \/ FormatHeader \/ FormatPlayer \/ FormatOutput \/ FormatBlank \/ FormatReturn
    \/ TmuxFormatHeader \/ TmuxFormatPlayer \/ TmuxFormatOutput \/ TmuxFormatBlank
    \/ TmuxFormatReturn

SpecHistory == InitHistory /\ [][NextHistory]_vars

-----------------------------------------------------------------------------
(* The codec as a state machine: hex_to_ansi_bg called on a colour, and
   parse_ansi_colors called on the sequence it returned. *)

\* the two hex digits of the byte n, in upper case
Byte(n) == <<HexChars[(n \div 16) + 1], HexChars[(n % 16) + 1]>>

EdgeBytes == {0, 10, 30, 255}

\* the colours #RRGGBB drawn: one component takes every value, the two others
\* the values at the edges
ColorInputs ==
    {<<"#">> \o Byte(x) \o Byte(y) \o Byte(z) : x \in 0..255, y \in EdgeBytes, z \in EdgeBytes}
        \cup {<<"#">> \o Byte(y) \o Byte(x) \o Byte(z) : x \in 0..255, y \in EdgeBytes, z \in EdgeBytes}
        \cup {<<"#">> \o Byte(y) \o Byte(z) \o Byte(x) : x \in 0..255, y \in EdgeBytes, z \in EdgeBytes}

\* strings that are no colour #RRGGBB and that hex_to_ansi_bg takes: 5 digits,
\* of which the last slice has one; lower case without "#"; two "#" and a
\* digit that is not ASCII; slices with a sign and with white space
OddColors ==
    {<<"#", "A", "B", "C", "D", "E">>,
     <<"a", "b", "c", "d", "e", "f">>,
     <<"#", "#", "1", ARABIC_THREE, "0", "0", "F", "F", "F">>,
     <<"#", "+", "5", "-", "5", " ", "5">>,
     <<"#", "5", NBSP, TAB, "5", "-", "F">>}

EvaluatorIdle ==
    /\ solution = <<>> /\ guess = <<>> /\ impossible_digits = {} /\ result = <<>>
    /\ history = <<>> /\ FormatterIdle

InitCodec ==
    /\ op = "init"
    /\ hex_color = NoColor /\ encoded = <<>> /\ decoded = <<>>
    /\ content = NoContent /\ data = NoData
    /\ EvaluatorIdle

HexToAnsiBg ==
    /\ op = "init"
    /\ \E c \in ColorInputs \cup OddColors :
        /\ hex_color' = c
        /\ encoded' = hex_to_ansi_bg(c)
    /\ op' = "encoded"
    /\ UNCHANGED <<decoded, content, data, solution, guess, impossible_digits, result,
                   history, output, position, returned>>

ParseAnsiColors ==
    /\ op = "encoded"
    /\ decoded' = parse_ansi_colors(encoded, TRUE)
    /\ op' = "decoded"
    /\ UNCHANGED <<hex_color, encoded, content, data, solution, guess,
                   impossible_digits, result, history, output, position, returned>>

NextCodec == HexToAnsiBg \/ ParseAnsiColors

SpecCodec == InitCodec /\ [][NextCodec]_vars

-----------------------------------------------------------------------------
(* The extractor as a state machine: the captured text grows by one line a
   step, and parse_scoreboard runs on the whole text after each line. A text
   goes to one of the two programs, hex_scoreboard_parser.py and
   tmux_scoreboard_parser.py, each with its own parse_scoreboard. *)

\* most lines of a captured text
MaxLines == 2

\* the decimal parameters of three colours: #0A141E, #112233 and #FF0007
ColorA == <<<<"1", "0">>, <<"2", "0">>, <<"3", "0">>>>
ColorB == <<<<"1", "7">>, <<"3", "4">>, <<"5", "1">>>>
ColorC == <<<<"2", "5", "5">>, <<"0">>, <<"7">>>>

\* a background sequence with the separator sep
Bg(sep, rgb) ==
    <<ESC, "[", "4", "8", sep, "2", sep>>
        \o rgb[1] \o <<sep>> \o rgb[2] \o <<sep>> \o rgb[3] \o <<"m">>

\* a foreground sequence with the separator sep, after the parameters prefix
Fg(prefix, sep, rgb) ==
    <<ESC, "[">> \o prefix \o <<"3", "8", sep, "2", sep>>
        \o rgb[1] \o <<sep>> \o rgb[2] \o <<sep>> \o rgb[3] \o <<"m">>

Reset == <<ESC, "[", "0", "m">>

\* title lines
TitleFg == Fg(<<>>, ";", ColorB) \o TokenTitle \o Reset
TitleFgKitty == Fg(<<"1", ";">>, ":", ColorC) \o TokenTitle \o Reset
TitlePlain == TokenTitle
TitleBg == Bg(";", ColorA) \o TokenTitle \o Reset
TitleBgFgFg ==
    Bg(":", ColorA) \o Fg(<<>>, ";", ColorC) \o TokenTitle \o Fg(<<>>, ":", ColorB) \o <<" ", "x">>

\* a line with a foreground colour and no title
TextFg == Fg(<<>>, ";", ColorA) \o <<"h", "e", "l", "l", "o">>

\* day lines
DayDot == <<"d", "a", "y", " ", "5", " ", MIDDOT>>
DayGt == <<"d", "a", "y", " ", "1", "2", " ", ">">>
DayNoGlyph == <<"d", "a", "y", " ", "7">>
DayNoInt == <<"d", "a", "y", " ", "x", " ", ">">>

\* day lines with the middle dot as the two characters tmux_scoreboard_parser.py
\* looks for
DayLatin == <<"d", "a", "y", " ", "9", " ", "Â", MIDDOT>>
DayLatinArabic == <<"d", "a", "y", " ", ARABIC_THREE, "1", " ", "Â", MIDDOT>>
DayLatinNoInt == <<"d", "a", "y", " ", "Â", MIDDOT>>

\* player rows
RowAlice == <<" ", " ">> \o Alice \o <<" ", " ", " ">> \o Bg(";", ColorA)
                \o <<" ", " ">> \o Reset \o <<" ", " ", "7">>
RowAliceKitty ==
    Alice \o <<" ">> \o Bg(":", ColorB) \o Bg(";", ColorA) \o Bg(":", ColorB) \o <<" ", "1", "2">>
RowBob == Bob \o <<" ">> \o Bg(";", ColorC) \o <<TAB, "3", " ">>
RowSeqFirst == Bg(";", ColorA) \o Alice \o <<" ", "7">>
RowSeqFirstKitty == Bg(":", ColorA) \o Alice \o <<" ", "7">>
RowSeqLast == Bob \o <<" ", "4">> \o Bg(";", ColorB)
RowSeqLastKitty == Bob \o <<" ", "4">> \o Bg(":", ColorB)

\* rows with a letter, white space and a digit that are not ASCII
Jose == <<"j", "o", "s", "é">>
RowJose == Jose \o <<NBSP>> \o Bg(";", ColorB) \o <<" ", ARABIC_THREE, CR>>

\* lines with a reserved word that is not whole, or not in one piece
RowDailyhex == TokenDailyhex \o <<" ", "5">>
RowSplitName == <<"n", "a">> \o Reset \o <<"m", "e", " ", "5">>

\* lines that are no rows
Header == <<"n", "a", "m", "e", " ", "m", "o", "v", "e", "s">>
Blank == <<" ", " ">>
Empty == <<>>
NoMoves == Alice \o <<" ", "x">>
ResetOnly == Reset

LinePool ==
    {TitleFg, TitleFgKitty, TitlePlain, TitleBg, TitleBgFgFg, TextFg,
     DayDot, DayGt, DayNoGlyph, DayNoInt,
     RowAlice, RowAliceKitty, RowBob, RowSeqFirst, RowSeqFirstKitty,
     RowSeqLast, RowSeqLastKitty, RowDailyhex, RowSplitName,
     Header, Blank, Empty, NoMoves, ResetOnly,
     DayLatin, RowJose}

\* the lines of the texts given to tmux_scoreboard_parser.py
TmuxLinePool ==
    {DayDot, DayGt, DayLatin, DayLatinArabic, DayLatinNoInt,
     RowAlice, RowAliceKitty, RowBob, RowJose, TitleFg, Header, Empty}

InitParse ==
    /\ op = "init"
    /\ content = NoContent /\ data = NoData
    /\ hex_color = NoColor /\ encoded = <<>> /\ decoded = <<>>
    /\ EvaluatorIdle

\* one more line is captured and the text is parsed
ParseScoreboard ==
    /\ op = "init" \/ (op = "parse" /\ Len(split(content)) < MaxLines)
    /\ \E line \in LinePool :
        /\ content' = IF op = "init" THEN line ELSE content \o <<NL>> \o line
        /\ data' = parse_scoreboard(content')
    /\ op' = "parse"
    /\ UNCHANGED <<hex_color, encoded, decoded, solution, guess, impossible_digits, result,
                   history, output, position, returned>>

\* one more line is captured and the text is parsed by
\* tmux_scoreboard_parser.py
TmuxParseScoreboard ==
    /\ op = "init" \/ (op = "tmux_parse" /\ Len(split(content)) < MaxLines)
    /\ \E line \in TmuxLinePool :
        /\ content' = IF op = "init" THEN line ELSE content \o <<NL>> \o line
        /\ data' = tmux_parse_scoreboard(content')
    /\ op' = "tmux_parse"
    /\ UNCHANGED <<hex_color, encoded, decoded, solution, guess, impossible_digits, result,
                   history, output, position, returned>>

NextParse == ParseScoreboard \/ TmuxParseScoreboard

SpecParse == InitParse /\ [][NextParse]_vars

-----------------------------------------------------------------------------
(* Properties of the evaluator *)

CleanGuess == upper(lstrip_hash(guess))
CleanSolution == upper(lstrip_hash(solution))

\* number of positions of s that hold v
Count(s, v) == Cardinality({i \in 1..Len(s) : s[i] = v})

\* number of positions of the result that hold one of the strings in marks
Marked(marks) == Cardinality({i \in 1..Len(result) : result[i] \in marks})

\* number of positions of the result marked green or yellow with digit v
Credited(v) == \* the set is built once
    CHOOSE n \in {Marked(marks) : marks \in {{Green(v), Yellow(v)}}} : TRUE

\* the multiset bound for the guess g and the solution s, both without "#"
Bounded(g, s) ==
    \A v \in Digits \cup {g[i] : i \in 1..Len(g)} \cup {s[i] : i \in 1..Len(s)} :
        Credited(v) <= Count(s, v)

\* C1: for every digit value v, the positions of the result of evaluate_guess
\* that are green or yellow and carry v are at most as many as the
\* occurrences of v in the solution.
C1_MultisetBound ==
    op = "evaluate" =>
        \A g \in {CleanGuess}, s \in {CleanSolution} :
            (Len(g) = WordLen /\ Len(s) = WordLen) => Bounded(g, s)

\* a guess with more occurrences of a digit than the solution has, where the
\* digit is not impossible and takes every occurrence the solution has, one of
\* them as yellow
C1_Witness ==
    /\ op = "evaluate"
    /\ \E g \in {CleanGuess}, s \in {CleanSolution} :
        /\ Len(g) = WordLen /\ Len(s) = WordLen
        /\ \E v \in Digits :
            /\ v \notin impossible_digits
            /\ Count(g, v) > Count(s, v)
            /\ Count(s, v) >= 2
            /\ Credited(v) = Count(s, v)
            /\ \E i \in 1..WordLen : result[i] = Yellow(v)

\* C2: every digit of the set get_impossible_digits builds is absent from the
\* solution, so that no position of a later guess that equals the solution at
\* that position is marked red.
C2_ImpossibleAbsent ==
    (op \in {"impossible", "continue"}) =>
        /\ \A d \in impossible_digits : Count(CleanSolution, d) = 0
        /\ \A g \in Words :
              Len(CleanSolution) = WordLen =>
                  \A i \in 1..WordLen :
                      g[i + 1] = CleanSolution[i] =>
                          evaluate_guess(g, solution, impossible_digits)[i] # Red(g[i + 1])

\* the guess with the positions that hold an impossible digit blanked
Removed(g, impossible) == [i \in 1..Len(g) |-> IF g[i] \in impossible THEN "_" ELSE g[i]]

\* the result marks the impossible positions of g red and the others as ref does
RedOrAs(g, ref) ==
    \A i \in 1..WordLen :
        IF g[i] \in impossible_digits
        THEN result[i] = Red(g[i])
        ELSE result[i] = ref[i]

\* C3: every position of the guess whose digit is impossible is marked red,
\* equal to the solution there or not, and every other position is marked as
\* the correct-position and wrong-position passes mark it when they run on the
\* guess without the impossible positions, against all 6 solution digits.
C3_EliminationPass ==
    op = "evaluate" =>
        \A g \in {CleanGuess}, s \in {CleanSolution} :
            (Len(g) = WordLen /\ Len(s) = WordLen) =>
                \A ref \in {evaluate_guess(Removed(g, impossible_digits), s, {})} :
                    RedOrAs(g, ref)

\* an impossible digit stands where the solution has it and is red, and
\* another position is yellow
C3_Witness ==
    /\ op = "evaluate"
    /\ \E g \in {CleanGuess}, s \in {CleanSolution} :
        /\ Len(g) = WordLen /\ Len(s) = WordLen
        /\ \E i, j \in 1..WordLen :
            /\ g[i] \in impossible_digits
            /\ g[i] = s[i]
            /\ result[i] = Red(g[i])
            /\ g[j] \notin impossible_digits
            /\ result[j] = Yellow(g[j])

\* the guess or the solution has not 6 characters after "#" is stripped
Malformed == Len(CleanGuess) # WordLen \/ Len(CleanSolution) # WordLen

-----------------------------------------------------------------------------
(* Properties of the codec *)

\* C4: for every colour #RRGGBB in upper case, parse_ansi_colors with
\* background_only=True, run on the sequence hex_to_ansi_bg returns for the
\* colour, returns the list of that one colour.
C4_RoundTrip == (op = "decoded" /\ hex_color \in ColorInputs) => decoded = <<hex_color>>

\* the colour #0A141E went through both functions, as 48;2;10;20;30
C4_Witness ==
    /\ op = "decoded"
    /\ hex_color = <<"#", "0", "A", "1", "4", "1", "E">>
    /\ encoded = Bg(";", ColorA)
    /\ decoded = <<hex_color>>

-----------------------------------------------------------------------------
(* Properties of the extractor *)

Lines == split(content)

First(S) == CHOOSE k \in S : \A j \in S : k <= j
Last(S) == CHOOSE k \in S : \A j \in S : j <= k

\* the lines with the token day, a separator glyph and an integer after "day "
DayLines(lines) ==
    {k \in 1..Len(lines) : IsDayLine(lines[k]) /\ DayMatch(lines[k]) # None}

\* the lines with the token day, the two characters tmux_scoreboard_parser.py
\* takes for the middle dot and an integer after "day "
TmuxDayLines(lines) ==
    {k \in 1..Len(lines) : TmuxIsDayLine(lines[k]) /\ DayMatch(lines[k]) # None}

\* C5 as stated: the day of the snapshot is the integer of the first line
\* with the token day, a separator glyph and an integer after "day ", and is
\* absent when no line is such.
C5_FirstDayWins ==
    (op \in {"parse", "tmux_parse"}) =>
        \A lines \in {Lines} : \A days \in {DayLines(lines)} :
            IF days = {} THEN data.day = None
            ELSE DayMatch(lines[First(days)]) = data.day

\* C5: the day of the snapshot is the integer of the last line with the token
\* day, a separator glyph and an integer after "day ", and is absent when no
\* line is such; the glyph is the middle dot or ">" in
\* hex_scoreboard_parser.py, and the two characters "Â" and middle dot in
\* tmux_scoreboard_parser.py.
C5_LastDayWins ==
    (op \in {"parse", "tmux_parse"}) =>
        \A lines \in {Lines} :
            \A days \in {IF op = "parse" THEN DayLines(lines) ELSE TmuxDayLines(lines)} :
                IF days = {} THEN data.day = None
                ELSE DayMatch(lines[Last(days)]) = data.day

\* two day lines with two integers, and the day is that of the second
C5_Witness ==
    /\ op = "parse"
    /\ Lines = <<DayDot, DayGt>>
    /\ data.day = <<"1", "2">>

Range(lines) == {lines[k] : k \in 1..Len(lines)}

\* the first b characters of t are whitespace and then word characters, the
\* last of them a word character
LeadWord(t, b) ==
    /\ IsWord(t[b])
    /\ \A i \in 1..b : IsSpace(t[i]) \/ IsWord(t[i])
    /\ \A i \in 1..(b - 1) : IsWord(t[i]) => IsWord(t[i + 1])

\* the shape of a row: whitespace, word characters, separator content that
\* starts with whitespace, an integer, whitespace
Shaped(t) ==
    \E b \in 1..Len(t) :
        /\ LeadWord(t, b)
        /\ IsSpace(At(t, b + 1))
        /\ \E e \in (b + 2)..Len(t) :
            IsDigit(t[e]) /\ \A i \in (e + 1)..Len(t) : IsSpace(t[i])

\* the leading word of a shaped text
LeadingWord(t) ==
    SelectSeq(SubSeq(t, 1, CHOOSE b \in 1..Len(t) : LeadWord(t, b) /\ IsSpace(At(t, b + 1))),
              IsWord)

\* the trailing integer of a shaped text
TrailingInteger(t) ==
    LET e == Last({i \in 1..Len(t) : ~IsSpace(t[i])})
        d == First({i \in 1..e : \A j \in i..e : IsDigit(t[j])})
    IN IntOfDec(SubSeq(t, d, e))

\* t has one of the reserved tokens, title being the title token
Reserved(t, title) ==
    \E token \in {TokenName, TokenMoves, title, TokenDay} : Contains(t, token)

\* a row as C6 states it: tests on the text without its escape sequences,
\* with the whole title token
StrippedRow(line) ==
    /\ clean_line(line) # <<>>
    /\ ~Reserved(clean_line(line), TokenTitle)
    /\ Shaped(clean_line(line))

\* a row: the line as captured has a character that is no whitespace and none
\* of the words name, moves, dailyhex, day, and the text without the escape
\* sequences the pattern \x1b\[[0-9;]*m matches has the shape
RawRow(line) ==
    /\ HasText(line)
    /\ ~Reserved(line, TokenDailyhex)
    /\ Shaped(clean_line(line))

\* the leading words of the lines that are rows as C6 states them
StrippedRowNames ==
    {LeadingWord(clean_line(line)) : line \in {l \in Range(Lines) : StrippedRow(l)}}

\* the leading words of the lines that are rows
RawRowNames ==
    {LeadingWord(clean_line(line)) : line \in {l \in Range(Lines) : RawRow(l)}}

\* C6 as stated: a line is a player row if and only if its text without
\* escape sequences is not empty, has none of the tokens name, moves,
\* dailyhex! and day, and has the shape of a row.
C6_RowsByStrippedText ==
    op = "parse" => DOMAIN data.players = StrippedRowNames

\* C6: a line is a player row if and only if the line as captured has a
\* character that is no whitespace and none of the words name, moves,
\* dailyhex and day, and its text without escape sequences has the shape of a
\* row.
C6_RowsByRawText ==
    op = "parse" => DOMAIN data.players = RawRowNames

\* the line "dailyhex 5" gives no record, and the line that reads "name 5"
\* once its escape sequence is removed gives one
C6_Witness ==
    /\ op = "parse"
    /\ Lines = <<RowDailyhex, RowSplitName>>
    /\ DOMAIN data.players = {TokenName}

\* names[k] is the leading word of line k when the line is a row, and no
\* word otherwise
NamesOf(lines) ==
    [k \in 1..Len(lines) |->
        IF RawRow(lines[k]) THEN LeadingWord(clean_line(lines[k])) ELSE <<>>]

\* line k is the last row with its name
LastOfName(names, k) ==
    names[k] # <<>> /\ \A j \in (k + 1)..Len(names) : names[j] # names[k]

\* the record of the row line
RecordOf(line) ==
    [moves |-> TrailingInteger(clean_line(line)),
     guesses |-> parse_ansi_colors(line, TRUE)]

\* C7: for every name that is the leading word of a row, the players map has
\* the record of the last row with that name: moves is the trailing integer
\* of that row and guesses its background colours in order, duplicates kept;
\* the row of alice with the sequence 48;2;10;20;30 and the integer 7 gives
\* moves 7 and guesses [#0A141E].
C7_LastRowWins ==
    op = "parse" =>
        \A lines \in {Lines} : \A names \in {NamesOf(lines) \o <<>>} :
            \A k \in 1..Len(lines) :
                /\ names[k] # <<>> => names[k] \in DOMAIN data.players
                /\ LastOfName(names, k) =>
                      /\ data.players[names[k]] = RecordOf(lines[k])
                      /\ lines[k] = RowAlice =>
                            data.players[Alice] =
                                [moves |-> 7,
                                 guesses |-> << <<"#", "0", "A", "1", "4", "1", "E">> >>]

\* two rows of alice, and the record is that of the second, with a colour twice
C7_Witness ==
    /\ op = "parse"
    /\ Lines = <<RowAlice, RowAliceKitty>>
    /\ data.players[Alice] =
           [moves |-> 12,
            guesses |-> << <<"#", "1", "1", "2", "2", "3", "3">>,
                           <<"#", "0", "A", "1", "4", "1", "E">>,
                           <<"#", "1", "1", "2", "2", "3", "3">> >>]

\* the title lines that carry a foreground colour
TitleFgLines(lines) ==
    {k \in 1..Len(lines) :
        Contains(lines[k], TokenTitle) /\ parse_ansi_colors(lines[k], FALSE) # <<>>}

\* C8 as stated: the solution is the first foreground colour of a title line
\* that carries one, whichever title line it is, and is absent when no title
\* line carries a foreground colour.
C8_AnyTitleLine ==
    op = "parse" =>
        \A lines \in {Lines} : \A titles \in {TitleFgLines(lines)} :
            IF titles = {} THEN data.solution = None
            ELSE \A k \in titles :
                     data.solution = parse_ansi_colors(lines[k], FALSE)[1]

\* C8: the solution is the first foreground colour of the last title line
\* that carries one, and is absent when no title line carries a foreground
\* colour; background colours of title lines and foreground colours of other
\* lines are never the solution.
C8_LastTitleLine ==
    op = "parse" =>
        \A lines \in {Lines} : \A titles \in {TitleFgLines(lines)} :
            IF titles = {} THEN data.solution = None
            ELSE data.solution = parse_ansi_colors(lines[Last(titles)], FALSE)[1]

\* two title lines with foreground colours: the solution is the first
\* foreground colour of the second, which has a background colour before it
C8_Witness ==
    /\ op = "parse"
    /\ Lines = <<TitleFg, TitleBgFgFg>>
    /\ data.solution = <<"#", "F", "F", "0", "0", "0", "7">>

\* the text from index i on, each ":" of the colour sequences the decoder
\* recognizes written ";"
RECURSIVE SemicolonFrom(_, _)
SemicolonFrom(t, i) ==
    IF i > Len(t) THEN <<>>
    ELSE IF BgMatchAt(t, i).ok \/ FgMatchAt(t, i).ok
         THEN LET e == IF BgMatchAt(t, i).ok THEN BgMatchAt(t, i).end
                                             ELSE FgMatchAt(t, i).end
              IN [k \in 1..(e - i) |-> IF t[i + k - 1] = ":" THEN ";" ELSE t[i + k - 1]]
                     \o SemicolonFrom(t, e)
         ELSE <<t[i]>> \o SemicolonFrom(t, i + 1)

\* C9: the text parse_scoreboard matches rows on has none of the colour
\* sequences the decoder recognizes, so that the records of the text are the
\* records of the same text with its colour sequences written with ";".
C9_StripBothForms ==
    op = "parse" =>
        /\ \A k \in 1..Len(Lines) :
              /\ parse_ansi_colors(clean_line(Lines[k]), TRUE) = <<>>
              /\ parse_ansi_colors(clean_line(Lines[k]), FALSE) = <<>>
        /\ data.players = parse_scoreboard(SemicolonFrom(content, 1)).players

-----------------------------------------------------------------------------
(* Properties of the history of a player *)

\* the digits of the guess g that evaluate_guess, with no impossible digit,
\* leaves without a mark
Unclassified(g, s) ==
    UNION {{clean[i] : i \in {j \in 1..WordLen : marks[j] = Plain(clean[j])}} :
               clean \in {upper(lstrip_hash(g))}, marks \in {evaluate_guess(g, s, {})}}

\* the history, last guess first
Reversed(h) == [k \in 1..Len(h) |-> h[Len(h) + 1 - k]]

\* C11: a digit is in the set get_impossible_digits returns for a history
\* and a solution if and only if some guess of the history has it at a
\* position that evaluate_guess, with no impossible digit, leaves without a
\* mark; the set is that of the history in any other order.  The solution is
\* one of six digits: format_output calls the two functions for every
\* solution that is a string and not empty.
C11_AgreesWithEvaluate ==
    (op = "format" /\ Truthy(solution) /\ Len(CleanSolution) = WordLen) =>
        /\ impossible_digits =
               UNION {Unclassified(history[k], solution) : k \in 1..Len(history)}
        /\ impossible_digits = get_impossible_digits(Reversed(history), solution)

\* two previous guesses that give two digits: the first a digit the solution
\* has not, the second a digit the solution has, in more positions than the
\* solution; the guess after them holds both and has them marked red
C11_Witness ==
    /\ op = "format"
    /\ Truthy(solution)
    /\ Len(history) = 2
    /\ \E d, e \in impossible_digits :
        /\ d # e
        /\ Count(CleanSolution, d) = 0
        /\ Count(CleanSolution, e) > 0
        /\ Unclassified(history[1], solution) = {d}
        /\ Unclassified(history[2], solution) = {e}
        /\ \E i, j \in 1..WordLen : result[i] = Red(d) /\ result[j] = Red(e)

-----------------------------------------------------------------------------
(* Properties of the marks of the two evaluators *)

Min(a, b) == IF a < b THEN a ELSE b

\* the positions of the guess g that hold v and are not correct
NotCorrect(g, s, v) == {i \in 1..WordLen : g[i] = v /\ g[i] # s[i]}

\* the marks of the digit v, not impossible, in the result for the guess g
\* and the solution s, both without "#"
MarkedAsStated(g, s, v) ==
    /\ Credited(v) = Min(Count(g, v), Count(s, v))
    /\ \A i \in 1..WordLen : g[i] = v => (result[i] = Green(v) <=> g[i] = s[i])
    /\ \A nc \in {NotCorrect(g, s, v)} :
          \A i \in nc, j \in nc : (i < j /\ result[j] = Yellow(v)) => result[i] = Yellow(v)

\* C12: for every digit v that is not impossible, the positions of the guess
\* that hold v and are marked green or yellow are as many as the smaller of
\* the occurrences of v in the guess and in the solution; a position is green
\* exactly when its digit is not impossible and is the digit of the solution
\* at that position; and the yellow marks of v are on the leftmost positions
\* of v that are not green.
C12_MarksAsStated ==
    (op \in {"evaluate", "tmux_evaluate"}) =>
        \A g \in {CleanGuess}, s \in {CleanSolution} :
            (Len(g) = WordLen /\ Len(s) = WordLen) =>
                /\ \A v \in (Digits \cup {g[i] : i \in 1..WordLen}
                                    \cup {s[i] : i \in 1..WordLen}) \ impossible_digits :
                       MarkedAsStated(g, s, v)
                /\ \A i \in 1..WordLen :
                       g[i] \in impossible_digits => result[i] # Green(g[i])

\* a digit that is not impossible holds three positions of the guess and two
\* of the solution: one is green, the leftmost of the others is yellow and
\* the last has no mark, while an impossible digit stands where the solution
\* has it
C12_Witness ==
    /\ op = "evaluate"
    /\ \E g \in {CleanGuess}, s \in {CleanSolution} :
        /\ Len(g) = WordLen /\ Len(s) = WordLen
        /\ \E v \in Digits \ impossible_digits :
            /\ Count(g, v) = 3 /\ Count(s, v) = 2
            /\ \E i, j, k \in 1..WordLen :
                /\ j < k
                /\ result[i] = Green(v)
                /\ result[j] = Yellow(v)
                /\ result[k] = Plain(v)
        /\ \E i \in 1..WordLen : g[i] \in impossible_digits /\ g[i] = s[i]

====
